---- MODULE Spec2Model ----
(***************************************************************************)
(* Maintenance scripts of libr-agent:                                      *)
(*   scripts/fix_test_threadid.py     the test-fixture patcher             *)
(*   scripts/extract_context.py       the context extractor                *)
(*   scripts/consolidate_history.py   the history consolidator             *)
(* Each script is a run-to-completion program of its own; each has its own *)
(* specification below (SpecPatcher, SpecExtract, SpecMerge, SpecHistory). *)
(***************************************************************************)
EXTENDS Integers, Sequences, FiniteSets, TLC

VARIABLES
    \* ---- fix_test_threadid.py
    fixture_text,      \* the text of the fixture file, a sequence of tokens
    prev_content,      \* the text the last run of the patcher read
    returned,          \* the return values of the runs so far, oldest first
    \* ---- extract_context.py
    file_present,      \* whether args.file can be opened
    lines,             \* the lines of the file (each a sequence of characters)
    pattern,           \* args.pattern
    context,           \* args.context
    use_regex,         \* args.regex
    xpc,               \* position of main()
    ranges,            \* the value find_match_ranges returned
    remerged,          \* the merge step applied once more to ranges
    stdout,            \* what was printed to standard output, in order
    stderr,            \* what was printed to standard error, in order
    exit_code,         \* the exit code of the process (-1 while it runs)
    \* ---- consolidate_history.py
    today,             \* datetime.now().date() of the current run
    history_dir_exists,\* os.path.exists(HISTORY_DIR)
    fs,                \* HISTORY_DIR: file name -> content
    tar_file,          \* content packed in HISTORY_DIR/<output>.tar.gz, or NoFile
    archive_tar,       \* content of the copy in ARCHIVE_DIR, or NoFile
    hpc,               \* position of consolidate_history()
    run,               \* number of the current run of the script
    files,             \* the .md names os.listdir returned in this run
    selected_files,    \* the list selected_files
    content,           \* the string content built by the read loop
    idx,               \* loop index of the read loop and of the delete loop
    read_ok,           \* names whose text the read loop appended in this run
    deleted,           \* names os.remove removed in this run
    tar_created,       \* tarfile.open/tar.add succeeded in this run
    copied,            \* shutil.copy2 succeeded in this run
    faults             \* the I/O operations that raised so far

patcherVars == <<fixture_text, prev_content, returned>>
extractVars == <<file_present, lines, pattern, context, use_regex, xpc, ranges,
                 remerged, stdout, stderr, exit_code>>
historyVars == <<today, history_dir_exists, fs, tar_file, archive_tar, hpc, run,
                 files, selected_files, content, idx, read_ok, deleted,
                 tar_created, copied, faults>>
vars == <<patcherVars, extractVars, historyVars>>

\* ---- generic helpers ----------------------------------------------------

Min(S) == CHOOSE x \in S : \A y \in S : x <= y
Max(S) == CHOOSE x \in S : \A y \in S : x >= y

RECURSIVE Concat(_)
\* the concatenation of a sequence of sequences
Concat(ss) == IF ss = <<>> THEN <<>> ELSE Head(ss) \o Concat(Tail(ss))

\* =========================================================================
\* scripts/fix_test_threadid.py
\* =========================================================================
\* The file's text is a sequence of tokens: "sessionId:" and "threadId:" are
\* the words of the pattern (the pattern's literal "sessionId: " is the word
\* and a space, its "threadId" a prefix of the word), " " and "NL" are the
\* whitespace the pattern's \s matches ("NL" is the newline), "'" and "DQ" the
\* two quotes, "v" any other character and "," the comma.
Space == {" ", "NL"}
Quote == {"'", "DQ"}

\* The first index >= p of text c that holds no whitespace (Len(c)+1 if none):
\* where a greedy \s* or \s+ that starts at p stops.
RECURSIVE WsEnd(_, _)
WsEnd(c, p) == IF p > Len(c) \/ c[p] \notin Space THEN p ELSE WsEnd(c, p + 1)

\* .*threadId at index p: a "threadId" on the rest of the line ('.' does not
\* match the newline).
RECURSIVE LineHasThreadId(_, _)
LineHasThreadId(c, p) ==
    IF p > Len(c) \/ c[p] = "NL" THEN FALSE
    ELSE c[p] = "threadId:" \/ LineHasThreadId(c, p + 1)

\* (?!.*threadId) at index p
NoThreadIdAhead(c, p) == ~LineHasThreadId(c, p)

\* (\s*\n) from index g: the indices j of a newline such that c[g..j] is all
\* whitespace, i.e. the ends group 4 can take.
Group4Ends(c, g) == {j \in g..(WsEnd(c, g) - 1) : c[j] = "NL"}

\* The ends of group 4 after which the lookahead succeeds.
Group4Valid(c, g) == {j \in Group4Ends(c, g) : NoThreadIdAhead(c, j + 1)}

\* The lengths m of group 3, (.+?), that let the rest of the pattern match when
\* the opening quote (group 2) is at index q: c[q+1..q+m] holds no newline,
\* then the same quote, a comma, and group 4 with the lookahead.
ValueLengths(c, q) ==
    {m \in 1..(Len(c) - q - 2) :
        /\ \A k \in (q + 1)..(q + m) : c[k] # "NL"
        /\ c[q + m + 1] = c[q]
        /\ c[q + m + 2] = ","
        /\ Group4Valid(c, q + m + 3) # {}}

\* Whether the pattern matches with its first character at index p: (\s+) is
\* c[p..s-1], "sessionId: " is c[s], c[s+1] and the quote is c[s+2].  A \s+
\* that gives characters back is followed by whitespace, never by "sessionId:".
MatchesAt(c, p) ==
    LET s == WsEnd(c, p) IN
    /\ p <= Len(c)
    /\ s > p
    /\ s + 2 <= Len(c)
    /\ c[s] = "sessionId:"
    /\ c[s + 1] = " "
    /\ c[s + 2] \in Quote
    /\ ValueLengths(c, s + 2) # {}

\* The match at p: (.+?) is lazy (the shortest value first), (\s*\n) is greedy
\* (the longest run first).
MatchAt(c, p) ==
    LET s  == WsEnd(c, p)
        q  == s + 2
        m  == Min(ValueLengths(c, q))
        g  == q + m + 3
        j  == Max(Group4Valid(c, g))
    IN [indent        |-> SubSeq(c, p, s - 1),
        quote         |-> c[q],
        session_value |-> SubSeq(c, q + 1, q + m),
        newline       |-> SubSeq(c, g, j),
        end           |-> j]

replacer(match) ==
    match.indent \o <<"sessionId:", " ", match.quote>> \o match.session_value
        \o <<match.quote, ",">> \o match.newline
    \o match.indent \o <<"threadId:", " ", match.quote>> \o match.session_value
        \o <<match.quote, ",">> \o match.newline

\* re.sub(pattern, replacer, content) from index pos on: the leftmost match is
\* replaced and the scan goes on after its end.
RECURSIVE re_sub(_, _)
re_sub(c, pos) ==
    LET starts == {p \in pos..Len(c) : MatchesAt(c, p)} IN
    IF starts = {} THEN SubSeq(c, pos, Len(c))
    ELSE LET p == Min(starts)
             match == MatchAt(c, p)
         IN SubSeq(c, pos, p - 1) \o replacer(match) \o re_sub(c, match.end + 1)

\* ---- inputs of the patcher
MaxPieces == 5
MaxPatchRuns == 2

Pieces == {
    <<"NL">>, <<" ">>, <<"v">>,
    <<"sessionId:", " ", "'", "v", "'", ",">>,
    <<"sessionId:", " ", "DQ", "v", "DQ", ",">>,
    <<"threadId:", " ", "'", "v", "'", ",">> }

PieceSeqs == UNION {[1..n -> Pieces] : n \in 0..MaxPieces}

PatcherIdle ==
    /\ fixture_text = <<>>
    /\ prev_content = <<>>
    /\ returned = <<>>

InitPatcher ==
    /\ fixture_text \in {Concat(ps) : ps \in PieceSeqs}
    /\ prev_content = <<>>
    /\ returned = <<>>

\* add_threadid_to_message_objects(file_path): one run over the file
add_threadid_to_message_objects ==
    /\ Len(returned) < MaxPatchRuns
    /\ LET new_content == re_sub(fixture_text, 1) IN
        /\ prev_content' = fixture_text
        /\ fixture_text' = new_content
        /\ returned' = Append(returned, new_content # fixture_text)
    /\ UNCHANGED <<extractVars, historyVars>>


NextPatcher == add_threadid_to_message_objects

\* =========================================================================
\* scripts/extract_context.py
\* =========================================================================
\* A line and a pattern are sequences of characters; "NL" is the newline that
\* readlines() keeps at the end of a line.

\* pattern in line
Contains(line, pat) ==
    \E s \in 1..(Len(line) - Len(pat) + 1) : SubSeq(line, s, s + Len(pat) - 1) = pat

\* re.compile(pattern), for patterns made of literal characters and character
\* sets "[...]": the index of the "]" that closes the set opened at i (a "]"
\* right after the "[" is a member of the set), 0 when the set is unterminated.
SetClose(pat, i) ==
    LET closes == {j \in (i + 2)..Len(pat) : pat[j] = "]"} IN
    IF closes = {} THEN 0 ELSE Min(closes)

\* Whether re.compile accepts pat[i..]: it raises re.error ("unterminated
\* character set") otherwise.
RECURSIVE re_valid(_, _)
re_valid(pat, i) ==
    IF i > Len(pat) THEN TRUE
    ELSE IF pat[i] = "[" THEN SetClose(pat, i) # 0 /\ re_valid(pat, SetClose(pat, i) + 1)
    ELSE re_valid(pat, i + 1)

\* The compiled program of pat[i..]: one set of characters per position.
RECURSIVE re_compile(_, _)
re_compile(pat, i) ==
    IF i > Len(pat) THEN <<>>
    ELSE IF pat[i] = "["
         THEN <<{pat[k] : k \in (i + 1)..(SetClose(pat, i) - 1)}>>
                  \o re_compile(pat, SetClose(pat, i) + 1)
         ELSE <<{pat[i]}>> \o re_compile(pat, i + 1)

\* prog.search(line)
re_search(prog, line) ==
    \E s \in 1..(Len(line) - Len(prog) + 1) :
        \A k \in 1..Len(prog) : line[s + k - 1] \in prog[k]

\* Whether line i (0-based) is a match: lines 23-31 of find_match_ranges
IsMatch(lns, pat, regex, i) ==
    IF regex THEN re_search(re_compile(pat, 1), lns[i + 1])
    ELSE Contains(lns[i + 1], pat)

\* The list matches of find_match_ranges, in increasing order.
RECURSIVE MatchesFrom(_, _, _, _)
MatchesFrom(lns, pat, regex, i) ==
    IF i >= Len(lns) THEN <<>>
    ELSE (IF IsMatch(lns, pat, regex, i) THEN <<i>> ELSE <<>>)
             \o MatchesFrom(lns, pat, regex, i + 1)

range_start(i, ctx) == IF i - ctx > 0 THEN i - ctx ELSE 0

range_end_unclamped(n, i, ctx) == i + ctx

range_end(n, i, ctx) == IF i + ctx < n - 1 THEN i + ctx ELSE n - 1

\* Tuples compare as Python compares them: by start, then by end.
RangeLE(a, b) == a[1] < b[1] \/ (a[1] = b[1] /\ a[2] <= b[2])

RECURSIVE InsertSorted(_, _)
InsertSorted(sorted, r) ==
    IF sorted = <<>> THEN <<r>>
    ELSE IF RangeLE(Head(sorted), r) THEN <<Head(sorted)>> \o InsertSorted(Tail(sorted), r)
    ELSE <<r>> \o sorted

\* ranges.sort()
RECURSIVE SortRanges(_)
SortRanges(rs) ==
    IF rs = <<>> THEN <<>>
    ELSE InsertSorted(SortRanges(SubSeq(rs, 1, Len(rs) - 1)), rs[Len(rs)])

adjacent_overlap_only(s, last_e) == s <= last_e

\* the test that coalesces overlapping and adjacent ranges
adjacent(s, last_e) == s <= last_e + 1

merge_step_no_else(merged, r) ==
    \* the append falls through after a coalesce
    LET last == merged[Len(merged)] IN
    IF adjacent(r[1], last[2])
    THEN Append([merged EXCEPT ![Len(merged)] =
                    <<last[1], IF last[2] >= r[2] THEN last[2] ELSE r[2]>>], r)
    ELSE Append(merged, r)

\* one iteration of the merge loop: merged after (s, e) = r
merge_step(merged, r) ==
    LET last == merged[Len(merged)] IN
    IF adjacent(r[1], last[2])
    THEN [merged EXCEPT ![Len(merged)] =
             <<last[1], IF last[2] >= r[2] THEN last[2] ELSE r[2]>>]
    ELSE Append(merged, r)

RECURSIVE merge_loop(_, _)
merge_loop(merged, rest) ==
    IF rest = <<>> THEN merged
    ELSE merge_loop(merge_step(merged, Head(rest)), Tail(rest))

\* the merge of find_match_ranges: sort, then coalesce
merge_ranges(rs) ==
    IF rs = <<>> THEN <<>>
    ELSE LET sorted == SortRanges(rs) IN merge_loop(<<Head(sorted)>>, Tail(sorted))

find_match_ranges(lns, pat, ctx, regex) ==
    LET matches == MatchesFrom(lns, pat, regex, 0)
        rs == [k \in 1..Len(matches) |->
                  <<range_start(matches[k], ctx), range_end(Len(lns), matches[k], ctx)>>]
    IN merge_ranges(rs)

\* print_ranges(lines, ranges): a header, the numbered lines and an empty line
\* per range.
RECURSIVE print_ranges(_, _)
print_ranges(rs, k) ==
    IF k > Len(rs) THEN <<>>
    ELSE <<<<"header", k, rs[k][1] + 1, rs[k][2] + 1>>>>
         \o [i \in 1..(IF rs[k][2] >= rs[k][1] THEN rs[k][2] - rs[k][1] + 1 ELSE 0)
                |-> <<"line", rs[k][1] + i>>]
         \o <<<<"blank">>>>
         \o print_ranges(rs, k + 1)

\* ---- inputs of the extractor
MaxLines == 4
MaxContext == 2

LineA == <<"a", "NL">>
LineError == <<"[", "E", "R", "R", "O", "R", "]", " ", "x", "NL">>
LineB == <<"b", "NL">>

LineChoices == {LineA, LineError, LineB}

\* "[ERROR]" is the default of --pattern; as a regular expression it is the set
\* of the characters E, R and O.  "[ab]" matches the lines a and b as a regular
\* expression and no line as a substring.  "[" is no regular expression.
PatternError == <<"[", "E", "R", "R", "O", "R", "]">>

PatternChoices == {PatternError, <<"b">>, <<"[", "a", "b", "]">>, <<"[">>}

ExtractIdle ==
    /\ file_present = FALSE
    /\ lines = <<>>
    /\ pattern = <<>>
    /\ context = 0
    /\ use_regex = FALSE
    /\ xpc = "idle"
    /\ ranges = <<>>
    /\ remerged = <<>>
    /\ stdout = <<>>
    /\ stderr = <<>>
    /\ exit_code = -1

InitExtract ==
    /\ file_present \in BOOLEAN
    /\ lines \in IF file_present
                 THEN UNION {[1..n -> LineChoices] : n \in 0..MaxLines}
                 ELSE {<<>>}
    /\ pattern \in PatternChoices
    /\ context \in (-MaxContext)..MaxContext
    /\ use_regex \in BOOLEAN
    /\ xpc = "start"
    /\ ranges = <<>>
    /\ remerged = <<>>
    /\ stdout = <<>>
    /\ stderr = <<>>
    /\ exit_code = -1

\* main(), lines 71-76: open and read the file
OpenFile ==
    /\ xpc = "start"
    /\ IF file_present
       THEN /\ xpc' = "opened"
            /\ UNCHANGED <<stderr, exit_code>>
       ELSE /\ stderr' = Append(stderr, <<"File not found">>)
            /\ exit_code' = 2
            /\ xpc' = "done"
    /\ UNCHANGED <<file_present, lines, pattern, context, use_regex, ranges,
                   remerged, stdout>>
    /\ UNCHANGED <<patcherVars, historyVars>>

\* main(), line 78: the call of find_match_ranges; nothing catches the re.error
\* of re.compile, so the interpreter prints the traceback and exits with 1.
FindRanges ==
    /\ xpc = "opened"
    /\ IF use_regex /\ ~re_valid(pattern, 1)
       THEN /\ stderr' = Append(stderr, <<"Traceback">>)
            /\ exit_code' = 1
            /\ xpc' = "done"
            /\ UNCHANGED ranges
       ELSE /\ ranges' = find_match_ranges(lines, pattern, context, use_regex)
            /\ xpc' = "found"
            /\ UNCHANGED <<stderr, exit_code>>
    /\ UNCHANGED <<file_present, lines, pattern, context, use_regex, remerged, stdout>>
    /\ UNCHANGED <<patcherVars, historyVars>>

\* main(), lines 79-82: the report
PrintResult ==
    /\ xpc = "found"
    /\ stdout' = IF ranges = <<>>
                 THEN Append(stdout, <<"No matches found.">>)
                 ELSE stdout \o print_ranges(ranges, 1)
    /\ exit_code' = 0
    /\ xpc' = "done"
    /\ UNCHANGED <<file_present, lines, pattern, context, use_regex, ranges,
                   remerged, stderr>>
    /\ UNCHANGED <<patcherVars, historyVars>>

\* the merge step of find_match_ranges applied to the list it returned
MergeAgain ==
    /\ xpc = "found"
    /\ remerged' = merge_ranges(ranges)
    /\ xpc' = "remerged"
    /\ UNCHANGED <<file_present, lines, pattern, context, use_regex, ranges,
                   stdout, stderr, exit_code>>
    /\ UNCHANGED <<patcherVars, historyVars>>

NextExtract == OpenFile \/ FindRanges \/ PrintResult

NextMerge == OpenFile \/ FindRanges \/ MergeAgain


\* =========================================================================
\* scripts/consolidate_history.py
\* =========================================================================
DAYS_OLD == 3

\* OUTPUT_FILE, relative to HISTORY_DIR
OUTPUT_FILE == "consolidated_history_20250906.md"

\* The characters of a file name.
Chars(name) ==
    CASE name = "debug_20250831_0007.md" ->
           <<"d","e","b","u","g","_","2","0","2","5","0","8","3","1","_",
             "0","0","0","7",".","m","d">>
      [] name = "plan_20250901.md" ->
           <<"p","l","a","n","_","2","0","2","5","0","9","0","1",".","m","d">>
      [] name = "notes_2025090.md" ->
           <<"n","o","t","e","s","_","2","0","2","5","0","9","0",".","m","d">>
      [] name = "debug_20250831.txt" ->
           <<"d","e","b","u","g","_","2","0","2","5","0","8","3","1",".","t","x","t">>
      [] name = "x_20250931.md" ->
           <<"x","_","2","0","2","5","0","9","3","1",".","m","d">>
      [] name = OUTPUT_FILE ->
           <<"c","o","n","s","o","l","i","d","a","t","e","d","_","h","i","s","t",
             "o","r","y","_","2","0","2","5","0","9","0","6",".","m","d">>

Digit == {"0", "1", "2", "3", "4", "5", "6", "7", "8", "9"}

DigitVal(c) ==
    CASE c = "0" -> 0 [] c = "1" -> 1 [] c = "2" -> 2 [] c = "3" -> 3 [] c = "4" -> 4
      [] c = "5" -> 5 [] c = "6" -> 6 [] c = "7" -> 7 [] c = "8" -> 8 [] c = "9" -> 9

\* int(cs[i..i+n-1])
RECURSIVE Number(_, _, _)
Number(cs, i, n) ==
    IF n = 0 THEN 0 ELSE Number(cs, i, n - 1) * 10 + DigitVal(cs[i + n - 1])

\* filename.endswith('.md')
EndsWithMd(cs) ==
    Len(cs) >= 3 /\ SubSeq(cs, Len(cs) - 2, Len(cs)) = <<".", "m", "d">>

\* The starts of the runs re.search(r'(\d{8})', filename) can match.
EightDigitStarts(cs) ==
    {i \in 1..(Len(cs) - 7) : \A k \in 0..7 : cs[i + k] \in Digit}

IsLeap(y) == (y % 4 = 0 /\ y % 100 # 0) \/ y % 400 = 0

DaysInMonth(y, m) ==
    IF m = 2 THEN (IF IsLeap(y) THEN 29 ELSE 28)
    ELSE IF m \in {4, 6, 9, 11} THEN 30 ELSE 31

\* None
NoDate == [year |-> 0, month |-> 0, day |-> 0]

\* What datetime.strptime(date_str, '%Y%m%d') accepts.
ValidDate(d) ==
    /\ d.year >= 1
    /\ d.month \in 1..12
    /\ d.day \in 1..DaysInMonth(d.year, d.month)

parse_date_from_filename(cs) ==
    LET starts == EightDigitStarts(cs) IN
    IF starts = {} THEN NoDate
    ELSE LET i == Min(starts)
             d == [year |-> Number(cs, i, 4), month |-> Number(cs, i + 4, 2),
                   day |-> Number(cs, i + 6, 2)]
         IN IF ValidDate(d) THEN d ELSE NoDate

RECURSIVE DaysBeforeMonth(_, _)
DaysBeforeMonth(y, m) ==
    IF m = 1 THEN 0 ELSE DaysBeforeMonth(y, m - 1) + DaysInMonth(y, m - 1)

\* date.toordinal(): the days from 0001-01-01, which is day 1
Ordinal(d) ==
    LET y == d.year - 1 IN
    y * 365 + (y \div 4) - (y \div 100) + (y \div 400)
        + DaysBeforeMonth(d.year, d.month) + d.day

is_older_or_equal(file_date, days, now) == Ordinal(file_date) <= Ordinal(now) - days

\* is_older_than_days(file_date, days), with today = now
is_older_than_days(file_date, days, now) == Ordinal(file_date) < Ordinal(now) - days

selected_or_undated(name, now) ==
    LET file_date == parse_date_from_filename(Chars(name)) IN
    file_date = NoDate \/ is_older_than_days(file_date, DAYS_OLD, now)

\* line 60: file_date and is_older_than_days(file_date, DAYS_OLD)
selected(name, now) ==
    LET file_date == parse_date_from_filename(Chars(name)) IN
    file_date # NoDate /\ is_older_than_days(file_date, DAYS_OLD, now)

\* The file contents: sequences of pieces <<"text", f>> (the original text of
\* file f), <<"hdr", f>> (the line "# f" and the empty line after it) and
\* <<"sep", "">> (the rule that ends a block).
OriginalText(name) == <<<<"text", name>>>>

\* f"# {filename}\n\n{file_content}\n\n---\n\n"
Block(name, file_content) == <<<<"hdr", name>>>> \o file_content \o <<<<"sep", "">>>>

NoFile == <<<<"absent", "">>>>

archive_except_continue == "delete"

\* lines 107-108: where an exception raised in lines 88-105 leaves the function
archive_except == "done"

\* The orders os.listdir can return the names of S in.
Orders(S) == {o \in [1..Cardinality(S) -> S] : \A i, j \in 1..Cardinality(S) : i # j => o[i] # o[j]}

\* ---- inputs of the consolidator
MaxRuns == 2
MaxFaults == 1

\* An I/O operation that can succeed raises: open, read, write, tarfile,
\* makedirs, copy2 or remove hit by the environment (permissions, a full disk,
\* an undecodable byte).
Fault == faults < MaxFaults /\ faults' = faults + 1

InputFiles == {"debug_20250831_0007.md", "plan_20250901.md", "notes_2025090.md",
               "debug_20250831.txt", "x_20250931.md"}

\* 2025-09-03 is DAYS_OLD days after the date of debug_20250831_0007.md,
\* 2025-09-04 is DAYS_OLD + 1 days after it and DAYS_OLD days after the date of
\* plan_20250901.md, and 2025-09-10 is DAYS_OLD + 1 days after the date in the
\* name of OUTPUT_FILE.
Todays == {[year |-> 2025, month |-> 9, day |-> 3],
           [year |-> 2025, month |-> 9, day |-> 4],
           [year |-> 2025, month |-> 9, day |-> 10]}

HistoryIdle ==
    /\ today = NoDate
    /\ history_dir_exists = FALSE
    /\ fs = <<>>
    /\ tar_file = NoFile
    /\ archive_tar = NoFile
    /\ hpc = "idle"
    /\ run = 0
    /\ files = {}
    /\ selected_files = <<>>
    /\ content = <<>>
    /\ idx = 1
    /\ read_ok = {}
    /\ deleted = {}
    /\ tar_created = FALSE
    /\ copied = FALSE
    /\ faults = 0

InitHistory ==
    /\ today \in Todays
    /\ history_dir_exists \in BOOLEAN
    /\ fs \in IF history_dir_exists
              THEN {[f \in S |-> OriginalText(f)] : S \in SUBSET InputFiles}
              ELSE {<<>>}
    /\ tar_file = NoFile
    /\ archive_tar = NoFile
    /\ hpc = "start"
    /\ run = 1
    /\ files = {}
    /\ selected_files = <<>>
    /\ content = <<>>
    /\ idx = 1
    /\ read_ok = {}
    /\ deleted = {}
    /\ tar_created = FALSE
    /\ copied = FALSE
    /\ faults = 0

\* lines 50-65: the listing and the selection
SelectFiles ==
    /\ hpc = "start"
    /\ IF ~history_dir_exists
       THEN /\ hpc' = "done"
            /\ UNCHANGED <<files, selected_files>>
       ELSE \E listing \in Orders({f \in DOMAIN fs : EndsWithMd(Chars(f))}) :
            /\ files' = {listing[i] : i \in DOMAIN listing}
            /\ selected_files' = SelectSeq(listing, LAMBDA f : selected(f, today))
            /\ hpc' = IF selected_files' = <<>> THEN "done" ELSE "read"
    /\ UNCHANGED <<today, history_dir_exists, fs, tar_file, archive_tar, run,
                   content, idx, read_ok, deleted, tar_created, copied, faults>>
    /\ UNCHANGED <<patcherVars, extractVars>>

\* lines 69-76: one iteration of the read loop; open() or read() may raise,
\* which is printed and skips the file
ReadFile ==
    /\ hpc = "read"
    /\ LET filename == selected_files[idx] IN
       \/ /\ content' = content \o Block(filename, fs[filename])
          /\ read_ok' = read_ok \cup {filename}
          /\ UNCHANGED faults
       \/ /\ Fault
          /\ UNCHANGED <<content, read_ok>>
    /\ IF idx = Len(selected_files)
       THEN hpc' = "write" /\ idx' = 1
       ELSE hpc' = "read" /\ idx' = idx + 1
    /\ UNCHANGED <<today, history_dir_exists, fs, tar_file, archive_tar, run,
                   files, selected_files, deleted, tar_created, copied>>
    /\ UNCHANGED <<patcherVars, extractVars>>

\* lines 79-84: the output file is written; open() may raise (the file is left
\* as it was) and so may write() (the file is left truncated); both are printed
\* and the function goes on
WriteOutput ==
    /\ hpc = "write"
    /\ \/ /\ fs' = [f \in DOMAIN fs \cup {OUTPUT_FILE} |->
                       IF f = OUTPUT_FILE THEN content ELSE fs[f]]
          /\ UNCHANGED faults
       \/ /\ Fault
          /\ fs' = fs
       \/ /\ Fault
          /\ fs' = [f \in DOMAIN fs \cup {OUTPUT_FILE} |->
                       IF f = OUTPUT_FILE THEN <<>> ELSE fs[f]]
    /\ hpc' = "tar"
    /\ UNCHANGED <<today, history_dir_exists, tar_file, archive_tar, run, files,
                   selected_files, content, idx, read_ok, deleted, tar_created, copied>>
    /\ UNCHANGED <<patcherVars, extractVars>>

\* lines 87-91: the archive is created; tar.add raises when the output file does
\* not exist (tarfile.open has made an empty archive by then), and tarfile.open
\* (the archive is left as it was) or tar.add (it is left empty) may raise
CreateTar ==
    /\ hpc = "tar"
    /\ \/ /\ OUTPUT_FILE \in DOMAIN fs
          /\ tar_file' = fs[OUTPUT_FILE]
          /\ tar_created' = TRUE
          /\ hpc' = "mkdir"
          /\ UNCHANGED faults
       \/ /\ OUTPUT_FILE \notin DOMAIN fs
          /\ tar_file' = <<>>
          /\ hpc' = archive_except
          /\ UNCHANGED <<tar_created, faults>>
       \/ /\ Fault
          /\ tar_file' \in {tar_file, <<>>}
          /\ hpc' = archive_except
          /\ UNCHANGED tar_created
    /\ UNCHANGED <<today, history_dir_exists, fs, archive_tar, run, files,
                   selected_files, content, idx, read_ok, deleted, copied>>
    /\ UNCHANGED <<patcherVars, extractVars>>

\* line 94: os.makedirs(ARCHIVE_DIR, exist_ok=True)
MakeArchiveDir ==
    /\ hpc = "mkdir"
    /\ \/ hpc' = "copy" /\ UNCHANGED faults
       \/ hpc' = archive_except /\ Fault
    /\ UNCHANGED <<today, history_dir_exists, fs, tar_file, archive_tar, run, files,
                   selected_files, content, idx, read_ok, deleted, tar_created, copied>>
    /\ UNCHANGED <<patcherVars, extractVars>>

\* lines 97-99: shutil.copy2(tar_file, archive_tar)
CopyTar ==
    /\ hpc = "copy"
    /\ \/ /\ archive_tar' = tar_file
          /\ copied' = TRUE
          /\ hpc' = "delete"
          /\ UNCHANGED faults
       \/ /\ Fault
          /\ hpc' = archive_except
          /\ UNCHANGED <<archive_tar, copied>>
    /\ UNCHANGED <<today, history_dir_exists, fs, tar_file, run, files,
                   selected_files, content, idx, read_ok, deleted, tar_created>>
    /\ UNCHANGED <<patcherVars, extractVars>>

\* lines 102-105: one iteration of the delete loop; os.remove may raise, which
\* ends the loop
DeleteFile ==
    /\ hpc = "delete"
    /\ LET filename == selected_files[idx] IN
       \/ /\ fs' = [f \in DOMAIN fs \ {filename} |-> fs[f]]
          /\ deleted' = deleted \cup {filename}
          /\ IF idx = Len(selected_files)
             THEN hpc' = "done" /\ idx' = 1
             ELSE hpc' = "delete" /\ idx' = idx + 1
          /\ UNCHANGED faults
       \/ /\ Fault
          /\ hpc' = archive_except
          /\ UNCHANGED <<fs, deleted, idx>>
    /\ UNCHANGED <<today, history_dir_exists, tar_file, archive_tar, run, files,
                   selected_files, content, read_ok, tar_created, copied>>
    /\ UNCHANGED <<patcherVars, extractVars>>

\* the script is run again, the same day or later
NextRun ==
    /\ hpc = "done"
    /\ run < MaxRuns
    /\ run' = run + 1
    /\ today' \in {t \in Todays : Ordinal(t) >= Ordinal(today)}
    /\ hpc' = "start"
    /\ files' = {}
    /\ selected_files' = <<>>
    /\ content' = <<>>
    /\ idx' = 1
    /\ read_ok' = {}
    /\ deleted' = {}
    /\ tar_created' = FALSE
    /\ copied' = FALSE
    /\ UNCHANGED <<history_dir_exists, fs, tar_file, archive_tar, faults>>
    /\ UNCHANGED <<patcherVars, extractVars>>

NextHistory ==
    SelectFiles \/ ReadFile \/ WriteOutput \/ CreateTar \/ MakeArchiveDir
        \/ CopyTar \/ DeleteFile \/ NextRun

\* =========================================================================
\* The specifications
\* =========================================================================
\* Range of a sequence
Range(s) == {s[i] : i \in DOMAIN s}

\* =========================================================================
\* The claims
\* =========================================================================

\* C1: a second run of add_threadid_to_message_objects after a run that rewrote
\* the file finds no match: it returns False and leaves the text as it was.
C1_SecondRunIdempotent ==
    (Len(returned) = 2 /\ returned[1])
        => (returned[2] = FALSE /\ fixture_text = prev_content)

\* C2: every range (start, end) find_match_ranges returns has 0 <= start and
\* end <= line_count - 1, for every value of --context.
C2_RangesWithinFile ==
    \A k \in 1..Len(ranges) : 0 <= ranges[k][1] /\ ranges[k][2] <= Len(lines) - 1

\* C2's case: matches on the first and on the last line with a positive
\* context, so that both ends were clamped.
C2_Witness ==
    /\ xpc = "done"
    /\ ranges # <<>>
    /\ context > 0
    /\ Len(lines) >= 2
    /\ IsMatch(lines, pattern, use_regex, 0)
    /\ IsMatch(lines, pattern, use_regex, Len(lines) - 1)
    /\ ranges[1][1] = 0
    /\ ranges[Len(ranges)][2] = Len(lines) - 1

\* C3: the merge step applied to a list find_match_ranges returned gives the
\* same list, in the same order.
C3_MergeIdempotent == xpc = "remerged" => remerged = ranges

\* C3's case: a re-merged list of several ranges, one of which was coalesced
\* from the windows of several matches.
C3_Witness ==
    /\ xpc = "remerged"
    /\ Len(ranges) >= 2
    /\ Len(MatchesFrom(lines, pattern, use_regex, 0)) > Len(ranges)
    /\ remerged = ranges

\* The lines within context lines of a matching line, clamped to the file.
InWindow(j) ==
    /\ 0 <= j
    /\ j <= Len(lines) - 1
    /\ \E i \in 0..(Len(lines) - 1) :
          /\ IsMatch(lines, pattern, use_regex, i)
          /\ i - context <= j
          /\ j <= i + context

\* C4: once find_match_ranges has returned, the ranges are sorted, pairwise
\* neither overlapping nor adjacent, a line index lies in a range exactly when
\* it is within context lines of a match, and once the report is printed each
\* such line was printed exactly once and no other line was.
C4_MinimalCover ==
    xpc \in {"found", "done"} /\ exit_code \in {-1, 0} =>
        /\ \A k \in 1..(Len(ranges) - 1) :
              /\ ranges[k][1] < ranges[k + 1][1]
              /\ ranges[k][2] + 1 < ranges[k + 1][1]
        /\ \A j \in (-1 - MaxContext)..(Len(lines) + MaxContext + 1) :
              (\E k \in 1..Len(ranges) : ranges[k][1] <= j /\ j <= ranges[k][2])
                  <=> InWindow(j)
        /\ xpc = "done" =>
              \A j \in (-1 - MaxContext)..(Len(lines) + MaxContext + 1) :
                  Cardinality({n \in DOMAIN stdout : stdout[n] = <<"line", j + 1>>})
                      = IF InWindow(j) THEN 1 ELSE 0

\* C4's case: the example, lines a, [ERROR] x, b with pattern [ERROR] and
\* context 1 give the one range (0, 2) and the three lines are printed.
C4_Witness ==
    /\ xpc = "done"
    /\ lines = <<LineA, LineError, LineB>>
    /\ pattern = PatternError
    /\ context = 1
    /\ ~use_regex
    /\ ranges = <<<<0, 2>>>>
    /\ stdout = <<<<"header", 1, 1, 3>>, <<"line", 1>>, <<"line", 2>>,
                  <<"line", 3>>, <<"blank">>>>

HasEightDigits(name) ==
    LET cs == Chars(name) IN
    \E i \in 1..Len(cs) :
        /\ i + 7 <= Len(cs)
        /\ \A k \in i..(i + 7) : cs[k] \in Digit

\* C6: a file whose name holds no run of 8 digits is never selected, never
\* concatenated into the output and never deleted.
C6_UndatedNeverSelected ==
    \A f \in Range(selected_files) \cup read_ok \cup deleted
              \cup {c[2] : c \in {b \in Range(content) : b[1] = "hdr"}} :
        HasEightDigits(f)

\* C6's case: a run that listed the file with 7 digits in its name, deleted
\* other files and left that file in place.
C6_Witness ==
    /\ hpc = "done"
    /\ "notes_2025090.md" \in files
    /\ deleted # {}
    /\ "notes_2025090.md" \in DOMAIN fs

\* C7: a run ends in one of three ways: exit code 2 with a message on stderr
\* and nothing printed when the file is missing, and otherwise the ranges or
\* "No matches found." on standard output.
C7_ThreeOutcomes ==
    xpc = "done" =>
        IF ~file_present
        THEN exit_code = 2 /\ stderr # <<>> /\ stdout = <<>>
        ELSE /\ stdout # <<>>
             /\ stdout[1][1] \in {"header", "No matches found."}

\* C8: a file is removed from the history directory only after the archive was
\* created and copied in this run, and a run whose archive was not created or
\* not copied removes nothing.
C8_DeleteAfterArchive ==
    [][/\ \A f \in DOMAIN fs : f \notin DOMAIN fs' => tar_created /\ copied
       /\ ~(tar_created' /\ copied') => deleted' = {}]_vars

\* C8's case: a run that created the archive, copied it and then deleted its
\* inputs.
C8_Witness ==
    /\ hpc = "done"
    /\ tar_created
    /\ copied
    /\ deleted = Range(selected_files)
    /\ deleted # {}

\* C9: after a run that reached the deletion step the consolidated markdown
\* file exists.
C9_OutputKept == (hpc = "done" /\ copied) => OUTPUT_FILE \in DOMAIN fs

\* C10: every file a run deleted was read in that run and its block is in the
\* archive that run copied.
C10_NoContentLost ==
    \A f \in deleted :
        /\ copied
        /\ f \in read_ok
        /\ <<"hdr", f>> \in Range(archive_tar)

PatcherStart == InitPatcher /\ ExtractIdle /\ HistoryIdle

ExtractStart == PatcherIdle /\ InitExtract /\ HistoryIdle

HistoryStart == PatcherIdle /\ ExtractIdle /\ InitHistory

SpecPatcher == PatcherStart /\ [][NextPatcher]_vars

SpecExtract == ExtractStart /\ [][NextExtract]_vars

SpecMerge == ExtractStart /\ [][NextMerge]_vars

SpecHistory == HistoryStart /\ [][NextHistory]_vars

====
